---- MODULE Spec2Model ----
(***************************************************************************)
(* The user-turn aggregation state machine of agent_server.pipecat:        *)
(* UserTurnAggregator (user_turn_aggregator.py) and its per-state handlers *)
(* (state_handlers.py).  One action delivers one frame to process_frame;   *)
(* a second action lets the monotonic clock advance between deliveries.    *)
(*                                                                         *)
(* Strings are TLA+ strings, "" is Python's empty (falsy) string and \o is *)
(* Python's +=.  An Optional[float] is a sequence: <<>> is None, <<t>> is  *)
(* the float t.  One clock tick stands for a quarter of a second.          *)
(***************************************************************************)
EXTENDS Integers, Sequences, FiniteSets, TLC

(* ---------------------------- bounds ----------------------------------- *)

\* Number of process_frame calls explored.
MaxEvents == 5

\* Largest reading of time.monotonic(), in ticks.
MaxTime == 3

(* --------------------------- constants --------------------------------- *)

\* aggregation_timeout = 0.5 s, in quarter-second ticks.
AggregationTimeout == 2

IDLE == "IDLE"
SPEAKING_AWAITING_TRANSCRIPT == "SPEAKING_AWAITING_TRANSCRIPT"
SPEAKING_RECEIVED_TRANSCRIPT == "SPEAKING_RECEIVED_TRANSCRIPT"
DONE_AWAITING_TRANSCRIPT == "DONE_AWAITING_TRANSCRIPT"

UserTurnState ==
    {IDLE, SPEAKING_AWAITING_TRANSCRIPT, SPEAKING_RECEIVED_TRANSCRIPT,
     DONE_AWAITING_TRANSCRIPT}

DOWNSTREAM == "DOWNSTREAM"
UPSTREAM == "UPSTREAM"
FrameDirection == {DOWNSTREAM, UPSTREAM}

None == <<>>

(* ----------------------------- frames ---------------------------------- *)

UserStartedSpeakingFrame == [kind |-> "UserStartedSpeakingFrame", text |-> ""]
UserStoppedSpeakingFrame == [kind |-> "UserStoppedSpeakingFrame", text |-> ""]
InterimTranscriptionFrame(text) == [kind |-> "InterimTranscriptionFrame", text |-> text]
TranscriptionFrame(text) == [kind |-> "TranscriptionFrame", text |-> text]
\* Any frame that is none of the four lifecycle kinds (the tests use a TextFrame).
TextFrame(text) == [kind |-> "TextFrame", text |-> text]
UserTurnMessageFrame(text) == [kind |-> "UserTurnMessageFrame", text |-> text]

\* Texts of the final transcripts delivered, the empty transcript included.
FinalTexts == {"", "Hello. ", "How are you? ", "I'm fine.", "hello"}
InterimTexts == {"hell"}

Frames ==
    {UserStartedSpeakingFrame, UserStoppedSpeakingFrame, TextFrame("unrelated")}
    \cup {InterimTranscriptionFrame(t) : t \in InterimTexts}
    \cup {TranscriptionFrame(t) : t \in FinalTexts}

\* What a test reads before any frame was delivered.
NoFrame == [kind |-> "NoFrame", text |-> ""]

VARIABLES
    state,              \* self._state
    aggregation,        \* self._aggregation
    pending_interim,    \* self._pending_interim
    done_received_at,   \* self._done_received_at
    now,                \* the reading time.monotonic() returns
    frame,              \* the frame of the latest process_frame call
    direction,          \* its direction
    pushed,             \* the push_frame calls that call made, in order
    flushed,            \* the push_turn_message calls that call made, in order
    prev,               \* the aggregator's fields, the clock and the turn when that call began
    nEvents,            \* process_frame calls so far
    nTurnMessages,      \* UserTurnMessageFrames pushed so far
    nStopped,           \* downstream UserStoppedSpeakingFrames delivered so far
    nFlushTriggers,     \* downstream frames so far that found the wait expired, or were a
                        \* UserStartedSpeakingFrame arriving during the wait
    turn,               \* the turn opened last: the final texts delivered to it while it
                        \* was open, the texts of the messages pushed for it, and whether
                        \* an interim was delivered to it after its latest final
    script,             \* the frames delivered since a test scenario began in IDLE, with
                        \* every push_frame call since, while they follow a scenario
    twin,               \* a second UserTurnAggregator with a clock of its own: its fields,
                        \* the push_frame calls of its latest process_frame call, and
                        \* whether every downstream frame so far found the wait expired
                        \* in both aggregators or in neither
    poller,             \* the session-boundary poll of one agent (kairix_agent worker):
                        \* the agent's messages, its cursor in Redis, the job queue,
                        \* the wall clock and where the poll in progress stands
    manager             \* the ConnectionManager (kairix_agent server): its registry,
                        \* the sockets that have gone away and the dispatch in progress

aggVars == <<state, aggregation, pending_interim, done_received_at>>
callVars == <<frame, direction, pushed, flushed, prev, nEvents>>
histVars == <<nTurnMessages, nStopped, nFlushTriggers, turn, script>>
serverVars == <<poller, manager>>

(* ------------------- UserTurnAggregator: state management -------------- *)

\* The object the methods below act on; pushed collects its push_frame calls
\* and flushed its push_turn_message calls (the buffer each found and the
\* state each left behind), both in call order; monotonic is the reading
\* time.monotonic() returns during the call.
Self ==
    [state |-> state, aggregation |-> aggregation,
     pending_interim |-> pending_interim,
     done_received_at |-> done_received_at, monotonic |-> now,
     pushed |-> <<>>, flushed |-> <<>>]

\* reset_state leaving the pending flag as it was.
reset_state_KeepPending(self) ==
    [self EXCEPT !.state = IDLE, !.aggregation = "", !.done_received_at = None]

reset_state(self) ==
    [self EXCEPT !.state = IDLE, !.aggregation = "",
                 !.pending_interim = FALSE, !.done_received_at = None]

transition_to(self, s) == [self EXCEPT !.state = s]

\* append_text putting the new text in front of the buffer.
append_text_Prepend(self, text) == [self EXCEPT !.aggregation = text \o @]

append_text(self, text) == [self EXCEPT !.aggregation = @ \o text]

set_pending_interim(self, pending) == [self EXCEPT !.pending_interim = pending]

has_pending_interim(self) == self.pending_interim

mark_done_received(self) == [self EXCEPT !.done_received_at = <<self.monotonic>>]

push_frame(self, f, d) ==
    [self EXCEPT !.pushed = Append(@, [frame |-> f, direction |-> d])]

\* push_turn_message without its final reset_state().
push_turn_message_NoReset(self) ==
    LET done == IF self.aggregation # ""
                THEN push_frame(self, UserTurnMessageFrame(self.aggregation), DOWNSTREAM)
                ELSE self
    IN  [done EXCEPT !.flushed =
            Append(@, [buffer |-> self.aggregation, state |-> done.state,
                       aggregation |-> done.aggregation,
                       pending_interim |-> done.pending_interim,
                       done_received_at |-> done.done_received_at])]

\* push_turn_message without its test of the buffer.
push_turn_message_Unguarded(self) ==
    LET done == reset_state(push_frame(self, UserTurnMessageFrame(self.aggregation),
                                       DOWNSTREAM))
    IN  [done EXCEPT !.flushed =
            Append(@, [buffer |-> self.aggregation, state |-> done.state,
                       aggregation |-> done.aggregation,
                       pending_interim |-> done.pending_interim,
                       done_received_at |-> done.done_received_at])]

\* push_turn_message resetting only after it has pushed a message.
push_turn_message_ResetIfPushed(self) ==
    LET done == IF self.aggregation # ""
                THEN reset_state(push_frame(self, UserTurnMessageFrame(self.aggregation),
                                            DOWNSTREAM))
                ELSE self
    IN  [done EXCEPT !.flushed =
            Append(@, [buffer |-> self.aggregation, state |-> done.state,
                       aggregation |-> done.aggregation,
                       pending_interim |-> done.pending_interim,
                       done_received_at |-> done.done_received_at])]

push_turn_message(self) ==
    LET done == reset_state(IF self.aggregation # ""
                            THEN push_frame(self, UserTurnMessageFrame(self.aggregation),
                                            DOWNSTREAM)
                            ELSE self)
    IN  [done EXCEPT !.flushed =
            Append(@, [buffer |-> self.aggregation, state |-> done.state,
                       aggregation |-> done.aggregation,
                       pending_interim |-> done.pending_interim,
                       done_received_at |-> done.done_received_at])]

(* ------------------------- StateHandler defaults ----------------------- *)

StateHandler_on_user_started(self, f, d) == push_frame(self, f, d)

\* on_interim_transcription noting the interim although no turn is open.
StateHandler_on_interim_transcription_SetPending(self, f, d) ==
    set_pending_interim(self, TRUE)

StateHandler_on_interim_transcription(self, f, d) == self

\* on_transcription buffering a transcript that no turn is open for.
StateHandler_on_transcription_Buffer(self, f, d) == append_text(self, f.text)

StateHandler_on_transcription(self, f, d) == self

\* on_user_stopped dropping a stop that no turn is open for.
StateHandler_on_user_stopped_Consume(self, f, d) == self

StateHandler_on_user_stopped(self, f, d) == push_frame(self, f, d)

\* on_other taking an unknown frame for the end of the turn.
StateHandler_on_other_Reset(self, f, d) == push_frame(reset_state(self), f, d)

\* on_other consuming the frame as the transcript defaults do.
StateHandler_on_other_Consume(self, f, d) == self

StateHandler_on_other(self, f, d) == push_frame(self, f, d)

(* ------------------------------ IdleHandler ---------------------------- *)

\* on_user_started opening the turn without relaying the frame.
IdleHandler_on_user_started_NoRelay(self, f, d) ==
    transition_to(self, SPEAKING_AWAITING_TRANSCRIPT)

IdleHandler_on_user_started(self, f, d) ==
    push_frame(transition_to(self, SPEAKING_AWAITING_TRANSCRIPT), f, d)

(* -------------------- SpeakingAwaitingTranscriptHandler ---------------- *)

SpeakingAwaitingTranscriptHandler_on_user_started(self, f, d) ==
    push_frame(self, f, d)

\* on_interim_transcription buffering the interim text.
SpeakingAwaitingTranscriptHandler_on_interim_transcription_Append(self, f, d) ==
    set_pending_interim(append_text(self, f.text), TRUE)

SpeakingAwaitingTranscriptHandler_on_interim_transcription(self, f, d) ==
    set_pending_interim(self, TRUE)

\* on_transcription leaving the pending flag set by an earlier interim.
SpeakingAwaitingTranscriptHandler_on_transcription_KeepPending(self, f, d) ==
    transition_to(append_text(self, f.text), SPEAKING_RECEIVED_TRANSCRIPT)

SpeakingAwaitingTranscriptHandler_on_transcription(self, f, d) ==
    transition_to(set_pending_interim(append_text(self, f.text), FALSE),
                  SPEAKING_RECEIVED_TRANSCRIPT)

\* on_user_stopped abandoning the turn although an interim is pending.
SpeakingAwaitingTranscriptHandler_on_user_stopped_NeverWait(self, f, d) ==
    push_frame(reset_state(self), f, d)

\* on_user_stopped relaying the frame only when the turn is abandoned.
SpeakingAwaitingTranscriptHandler_on_user_stopped_NoRelay(self, f, d) ==
    IF has_pending_interim(self)
    THEN mark_done_received(transition_to(self, DONE_AWAITING_TRANSCRIPT))
    ELSE push_frame(reset_state(self), f, d)

\* on_user_stopped waiting for a final transcript whether or not an interim was seen.
SpeakingAwaitingTranscriptHandler_on_user_stopped_AlwaysWait(self, f, d) ==
    push_frame(mark_done_received(transition_to(self, DONE_AWAITING_TRANSCRIPT)), f, d)

SpeakingAwaitingTranscriptHandler_on_user_stopped(self, f, d) ==
    push_frame(IF has_pending_interim(self)
               THEN mark_done_received(transition_to(self, DONE_AWAITING_TRANSCRIPT))
               ELSE reset_state(self),
               f, d)

(* -------------------- SpeakingReceivedTranscriptHandler ---------------- *)

\* on_user_started taking a second start for a new turn and dropping the buffer.
SpeakingReceivedTranscriptHandler_on_user_started_Restart(self, f, d) ==
    push_frame(transition_to(reset_state(self), SPEAKING_AWAITING_TRANSCRIPT), f, d)

SpeakingReceivedTranscriptHandler_on_user_started(self, f, d) ==
    push_frame(self, f, d)

\* on_interim_transcription buffering the interim text.
SpeakingReceivedTranscriptHandler_on_interim_transcription_Append(self, f, d) ==
    set_pending_interim(append_text(self, f.text), TRUE)

SpeakingReceivedTranscriptHandler_on_interim_transcription(self, f, d) ==
    set_pending_interim(self, TRUE)

\* on_transcription leaving the pending flag set by an earlier interim.
SpeakingReceivedTranscriptHandler_on_transcription_KeepPending(self, f, d) ==
    append_text(self, f.text)

\* on_transcription keeping only the latest fragment.
SpeakingReceivedTranscriptHandler_on_transcription_Replace(self, f, d) ==
    set_pending_interim([self EXCEPT !.aggregation = f.text], FALSE)

SpeakingReceivedTranscriptHandler_on_transcription(self, f, d) ==
    set_pending_interim(append_text(self, f.text), FALSE)

\* on_user_stopped entering the wait without mark_done_received().
SpeakingReceivedTranscriptHandler_on_user_stopped_NoMark(self, f, d) ==
    push_frame(IF has_pending_interim(self)
               THEN transition_to(self, DONE_AWAITING_TRANSCRIPT)
               ELSE push_turn_message(self),
               f, d)

\* on_user_stopped relaying the frame before it pushes the turn message.
SpeakingReceivedTranscriptHandler_on_user_stopped_RelayFirst(self, f, d) ==
    IF has_pending_interim(self)
    THEN push_frame(mark_done_received(transition_to(self, DONE_AWAITING_TRANSCRIPT)), f, d)
    ELSE push_turn_message(push_frame(self, f, d))

\* on_user_stopped calling reset_state() where it should push the turn message.
SpeakingReceivedTranscriptHandler_on_user_stopped_Drop(self, f, d) ==
    push_frame(IF has_pending_interim(self)
               THEN mark_done_received(transition_to(self, DONE_AWAITING_TRANSCRIPT))
               ELSE reset_state(self),
               f, d)

SpeakingReceivedTranscriptHandler_on_user_stopped(self, f, d) ==
    push_frame(IF has_pending_interim(self)
               THEN mark_done_received(transition_to(self, DONE_AWAITING_TRANSCRIPT))
               ELSE push_turn_message(self),
               f, d)

(* ---------------------- DoneAwaitingTranscriptHandler ------------------ *)

\* on_user_started opening the new turn without pushing the old one.
DoneAwaitingTranscriptHandler_on_user_started_NoFlush(self, f, d) ==
    push_frame(transition_to(self, SPEAKING_AWAITING_TRANSCRIPT), f, d)

DoneAwaitingTranscriptHandler_on_user_started(self, f, d) ==
    push_frame(transition_to(push_turn_message(self), SPEAKING_AWAITING_TRANSCRIPT),
               f, d)

\* on_interim_transcription clearing the flag the wait rests on.
DoneAwaitingTranscriptHandler_on_interim_transcription_Clear(self, f, d) ==
    set_pending_interim(self, FALSE)

DoneAwaitingTranscriptHandler_on_interim_transcription(self, f, d) ==
    set_pending_interim(self, TRUE)

\* on_transcription relaying the final transcript after the turn message.
DoneAwaitingTranscriptHandler_on_transcription_Relay(self, f, d) ==
    push_frame(push_turn_message(set_pending_interim(append_text(self, f.text), FALSE)),
               f, d)

\* on_transcription pushing the buffer without the final transcript it waited for.
DoneAwaitingTranscriptHandler_on_transcription_NoAppend(self, f, d) ==
    push_turn_message(set_pending_interim(self, FALSE))

DoneAwaitingTranscriptHandler_on_transcription(self, f, d) ==
    push_turn_message(set_pending_interim(append_text(self, f.text), FALSE))

\* on_user_stopped starting the wait again from the second stop.
DoneAwaitingTranscriptHandler_on_user_stopped_Remark(self, f, d) ==
    push_frame(mark_done_received(self), f, d)

DoneAwaitingTranscriptHandler_on_user_stopped(self, f, d) ==
    push_frame(self, f, d)

(* --------------------------- method resolution ------------------------- *)

\* self._handlers, as _create_handlers builds it: a handler class for each state.
Handlers ==
    [s \in UserTurnState |->
        CASE s = IDLE -> "IdleHandler"
          [] s = SPEAKING_AWAITING_TRANSCRIPT -> "SpeakingAwaitingTranscriptHandler"
          [] s = SPEAKING_RECEIVED_TRANSCRIPT -> "SpeakingReceivedTranscriptHandler"
          [] s = DONE_AWAITING_TRANSCRIPT -> "DoneAwaitingTranscriptHandler"]

\* self._handlers[self._state].on_user_started, and so on: every handler
\* class overrides some of the five methods and inherits the others.
on_user_started(self, f, d) ==
    CASE Handlers[self.state] = "IdleHandler" -> IdleHandler_on_user_started(self, f, d)
      [] Handlers[self.state] = "SpeakingAwaitingTranscriptHandler" ->
            SpeakingAwaitingTranscriptHandler_on_user_started(self, f, d)
      [] Handlers[self.state] = "SpeakingReceivedTranscriptHandler" ->
            SpeakingReceivedTranscriptHandler_on_user_started(self, f, d)
      [] Handlers[self.state] = "DoneAwaitingTranscriptHandler" ->
            DoneAwaitingTranscriptHandler_on_user_started(self, f, d)

on_interim_transcription(self, f, d) ==
    CASE Handlers[self.state] = "IdleHandler" -> StateHandler_on_interim_transcription(self, f, d)
      [] Handlers[self.state] = "SpeakingAwaitingTranscriptHandler" ->
            SpeakingAwaitingTranscriptHandler_on_interim_transcription(self, f, d)
      [] Handlers[self.state] = "SpeakingReceivedTranscriptHandler" ->
            SpeakingReceivedTranscriptHandler_on_interim_transcription(self, f, d)
      [] Handlers[self.state] = "DoneAwaitingTranscriptHandler" ->
            DoneAwaitingTranscriptHandler_on_interim_transcription(self, f, d)

on_transcription(self, f, d) ==
    CASE Handlers[self.state] = "IdleHandler" -> StateHandler_on_transcription(self, f, d)
      [] Handlers[self.state] = "SpeakingAwaitingTranscriptHandler" ->
            SpeakingAwaitingTranscriptHandler_on_transcription(self, f, d)
      [] Handlers[self.state] = "SpeakingReceivedTranscriptHandler" ->
            SpeakingReceivedTranscriptHandler_on_transcription(self, f, d)
      [] Handlers[self.state] = "DoneAwaitingTranscriptHandler" ->
            DoneAwaitingTranscriptHandler_on_transcription(self, f, d)

on_user_stopped(self, f, d) ==
    CASE Handlers[self.state] = "IdleHandler" -> StateHandler_on_user_stopped(self, f, d)
      [] Handlers[self.state] = "SpeakingAwaitingTranscriptHandler" ->
            SpeakingAwaitingTranscriptHandler_on_user_stopped(self, f, d)
      [] Handlers[self.state] = "SpeakingReceivedTranscriptHandler" ->
            SpeakingReceivedTranscriptHandler_on_user_stopped(self, f, d)
      [] Handlers[self.state] = "DoneAwaitingTranscriptHandler" ->
            DoneAwaitingTranscriptHandler_on_user_stopped(self, f, d)

on_other(self, f, d) == StateHandler_on_other(self, f, d)

\* StateHandler.handle: the isinstance chain, in its order.
handle(self, f, d) ==
    IF f.kind = "UserStartedSpeakingFrame" THEN on_user_started(self, f, d)
    ELSE IF f.kind = "InterimTranscriptionFrame" THEN on_interim_transcription(self, f, d)
    ELSE IF f.kind = "TranscriptionFrame" THEN on_transcription(self, f, d)
    ELSE IF f.kind = "UserStoppedSpeakingFrame" THEN on_user_stopped(self, f, d)
    ELSE on_other(self, f, d)

(* ------------------- UserTurnAggregator: frame processing -------------- *)

\* _check_timeout firing only once more than the timeout has passed.
check_timeout_Strict(self) ==
    IF self.done_received_at = None THEN self
    ELSE LET elapsed == self.monotonic - self.done_received_at[1] IN
         IF elapsed > AggregationTimeout THEN push_turn_message(self) ELSE self

\* _check_timeout comparing against a shorter timeout than the one configured.
check_timeout_Early(self) ==
    IF self.done_received_at = None THEN self
    ELSE LET elapsed == self.monotonic - self.done_received_at[1] IN
         IF elapsed >= AggregationTimeout - 1 THEN push_turn_message(self) ELSE self

\* _check_timeout giving the partial turn up: reset_state() for push_turn_message().
check_timeout_Discard(self) ==
    IF self.done_received_at = None THEN self
    ELSE LET elapsed == self.monotonic - self.done_received_at[1] IN
         IF elapsed >= AggregationTimeout THEN reset_state(self) ELSE self

check_timeout(self) ==
    IF self.done_received_at = None THEN self
    ELSE LET elapsed == self.monotonic - self.done_received_at[1] IN
         IF elapsed >= AggregationTimeout THEN push_turn_message(self) ELSE self

\* process_frame dispatching to the handler without the timeout check.
process_frame_NoTimeoutCheck(self, f, d) ==
    IF d = UPSTREAM THEN push_frame(self, f, d) ELSE handle(self, f, d)

\* process_frame returning once the timeout has flushed, the frame undelivered.
process_frame_ReturnAfterFlush(self, f, d) ==
    IF d = UPSTREAM THEN push_frame(self, f, d)
    ELSE LET checked == IF self.state = DONE_AWAITING_TRANSCRIPT THEN check_timeout(self)
                        ELSE self
         IN  IF checked.state # self.state THEN checked ELSE handle(checked, f, d)

\* process_frame checking the timeout after the handler has run.
process_frame_LateCheck(self, f, d) ==
    IF d = UPSTREAM THEN push_frame(self, f, d)
    ELSE LET handled == handle(self, f, d) IN
         IF self.state = DONE_AWAITING_TRANSCRIPT /\ handled.state = DONE_AWAITING_TRANSCRIPT
         THEN check_timeout(handled) ELSE handled

\* process_frame without the early return for upstream frames.
process_frame_NoUpstreamReturn(self, f, d) ==
    handle(IF self.state = DONE_AWAITING_TRANSCRIPT THEN check_timeout(self)
           ELSE self,
           f, d)

process_frame(self, f, d) ==
    IF d = UPSTREAM THEN push_frame(self, f, d)
    ELSE handle(IF self.state = DONE_AWAITING_TRANSCRIPT THEN check_timeout(self)
                ELSE self,
                f, d)

(* --------------------------- what a test observes ---------------------- *)

IsTurnMessage(p) == p.frame.kind = "UserTurnMessageFrame"

RECURSIVE TextsOf(_)
\* The texts of the UserTurnMessageFrames among push_frame calls, in order.
TextsOf(calls) ==
    IF calls = <<>> THEN <<>>
    ELSE (IF IsTurnMessage(Head(calls)) THEN <<Head(calls).frame.text>> ELSE <<>>)
         \o TextsOf(Tail(calls))

RECURSIVE Concat(_)
\* The texts of a sequence joined in order, nothing put between them.
Concat(texts) == IF texts = <<>> THEN "" ELSE Head(texts) \o Concat(Tail(texts))

\* The wait for a final transcript is over at a clock reading t.
Expired(st, at, t) ==
    st = DONE_AWAITING_TRANSCRIPT /\ at # None /\ t - at[1] >= AggregationTimeout

\* The state whose handler a frame reaches: IDLE once the wait has expired.
Dispatched(st, at, t, d) == IF d = DOWNSTREAM /\ Expired(st, at, t) THEN IDLE ELSE st

\* A downstream UserStartedSpeakingFrame accepted in IDLE or during the wait opens a turn.
Opens(st, at, t, f, d) ==
    /\ d = DOWNSTREAM
    /\ f.kind = "UserStartedSpeakingFrame"
    /\ Dispatched(st, at, t, d) \in {IDLE, DONE_AWAITING_TRANSCRIPT}

\* A downstream TranscriptionFrame that reaches an open turn is appended to it.
Appends(st, at, t, f, d) ==
    /\ d = DOWNSTREAM
    /\ f.kind = "TranscriptionFrame"
    /\ Dispatched(st, at, t, d) # IDLE

\* A downstream frame that flushes the wait: any frame after expiry, or a
\* UserStartedSpeakingFrame before it.
FlushTrigger(st, at, t, f, d) ==
    /\ d = DOWNSTREAM
    /\ st = DONE_AWAITING_TRANSCRIPT
    /\ Expired(st, at, t) \/ f.kind = "UserStartedSpeakingFrame"

\* A downstream InterimTranscriptionFrame that reaches an open turn announces a
\* final transcript still to come.
Marks(st, at, t, f, d) ==
    /\ d = DOWNSTREAM
    /\ f.kind = "InterimTranscriptionFrame"
    /\ Dispatched(st, at, t, d) # IDLE

NoTurn == [finals |-> <<>>, messages |-> <<>>, interim |-> FALSE]

(* ------------------------------ test scenarios ------------------------- *)

Down(f) == [frame |-> f, direction |-> DOWNSTREAM]

\* TestFullConversationFlow.test_multiple_transcripts_per_turn
MultipleTranscripts ==
    <<Down(UserStartedSpeakingFrame), Down(TranscriptionFrame("Hello. ")),
      Down(TranscriptionFrame("How are you? ")), Down(TranscriptionFrame("I'm fine.")),
      Down(UserStoppedSpeakingFrame)>>

\* TestFullConversationFlow.test_race_condition_stop_before_final
StopBeforeFinal ==
    <<Down(UserStartedSpeakingFrame), Down(InterimTranscriptionFrame("hell")),
      Down(UserStoppedSpeakingFrame), Down(TranscriptionFrame("hello"))>>

\* TestSpeakingAwaitingTranscriptState.test_user_stopped_no_pending_resets_to_idle
StartThenStop == <<Down(UserStartedSpeakingFrame), Down(UserStoppedSpeakingFrame)>>

Scenarios == {MultipleTranscripts, StopBeforeFinal, StartThenStop}

Prefixes == UNION {{SubSeq(sc, 1, n) : n \in 1..Len(sc)} : sc \in Scenarios}

OffScript == [inputs |-> <<>>, pushed |-> <<>>]

\* A scenario begins with a frame delivered in IDLE and goes on while the
\* frames delivered follow one of the scenarios.
Follow(f, d, calls) ==
    LET ev == [frame |-> f, direction |-> d] IN
    IF script # OffScript /\ Append(script.inputs, ev) \in Prefixes
    THEN [inputs |-> Append(script.inputs, ev), pushed |-> script.pushed \o calls]
    ELSE IF state = IDLE /\ <<ev>> \in Prefixes
    THEN [inputs |-> <<ev>>, pushed |-> calls]
    ELSE OffScript

(* ------------- kairix_agent: session-boundary polling, state ------------ *)

\* Messages of the agent explored.
MaxMessages == 3

\* Largest reading of the wall clock, in minutes.
MaxMinutes == 10

\* Polls explored.
MaxPolls == 3

\* Config.SESSION_GAP_MINUTES, its default.
SESSION_GAP_MINUTES == 5

\* The worker before its first poll of an agent: no message yet, no cursor in
\* Redis, the queue empty. archive_id tells whether the agent's config names an
\* archive. A message is [id, date], its id the place it has in the agent's
\* history; messages are what the poll in progress has fetched; checked is
\* what the latest poll saw and did; ok turns FALSE when an enqueue or a
\* cursor write raises.
NewPoller(archive) ==
    [archive_id |-> archive, history |-> <<>>, cursor |-> None, clock |-> 0,
     pc |-> "idle", messages |-> <<>>, jobs |-> <<>>, polls |-> 0, ok |-> TRUE,
     checked |-> [cursor |-> None, message_ids |-> <<>>, gap |-> 0,
                  enqueued |-> FALSE, raised |-> FALSE]]

(* ----------------- kairix_agent: ConnectionManager, state --------------- *)

Agents == {"agent-1", "agent-2"}

WebSockets == {"ws1", "ws2", "ws3"}

\* ConnectionManager.__init__: an empty registry (a dict: a function of the
\* agent ids that are keys), no dispatch in progress. closed are the sockets
\* whose client has gone, on which send_text raises; sockets is the list
\* dispatch snapshotted and sent the sockets it has called send_text on, in
\* order; registered is the set the registry held for the agent at the
\* snapshot; delivered are the sockets whose send_text returned.
NewManager ==
    [connections |-> <<>>, closed |-> {}, pc |-> "idle", agent_id |-> "agent-1",
     sockets |-> <<>>, sent |-> <<>>, registered |-> {}, elsewhere |-> {},
     delivered |-> {}]

(* ------------------------------ the machine ---------------------------- *)

\* UserTurnAggregator.__init__: reset_state() on a fresh object.
AggregatorInit ==
    /\ state = IDLE
    /\ aggregation = ""
    /\ pending_interim = FALSE
    /\ done_received_at = None
    /\ now = 0
    /\ frame = NoFrame
    /\ direction = DOWNSTREAM
    /\ pushed = <<>>
    /\ flushed = <<>>
    /\ prev = [state |-> IDLE, aggregation |-> "", pending_interim |-> FALSE,
               done_received_at |-> None, now |-> 0, turn |-> NoTurn]
    /\ nEvents = 0
    /\ nTurnMessages = 0
    /\ nStopped = 0
    /\ nFlushTriggers = 0
    /\ turn = NoTurn
    /\ script = OffScript
    /\ twin = [state |-> IDLE, aggregation |-> "", pending_interim |-> FALSE,
               done_received_at |-> None, monotonic |-> 0, pushed |-> <<>>,
               agree |-> TRUE]

\* The aggregator constructed; the worker and the server of kairix_agent just
\* started, the agent with an archive attached.
Init ==
    /\ AggregatorInit
    /\ poller = NewPoller(TRUE)
    /\ manager = NewManager

\* One call await aggregator.process_frame(f, d).
ProcessFrame(f, d) ==
    /\ nEvents < MaxEvents
    /\ LET r == process_frame(Self, f, d)
           texts == TextsOf(r.pushed)
       IN
       /\ state' = r.state
       /\ aggregation' = r.aggregation
       /\ pending_interim' = r.pending_interim
       /\ done_received_at' = r.done_received_at
       /\ pushed' = r.pushed
       /\ flushed' = r.flushed
       /\ nTurnMessages' = nTurnMessages + Len(texts)
       /\ turn' = IF Opens(state, done_received_at, now, f, d) THEN NoTurn
                  ELSE [finals |-> IF Appends(state, done_received_at, now, f, d)
                                   THEN Append(turn.finals, f.text)
                                   ELSE turn.finals,
                        messages |-> turn.messages \o texts,
                        interim |-> IF Appends(state, done_received_at, now, f, d)
                                    THEN FALSE
                                    ELSE IF Marks(state, done_received_at, now, f, d)
                                    THEN TRUE
                                    ELSE turn.interim]
       /\ script' = Follow(f, d, r.pushed)
    /\ frame' = f
    /\ direction' = d
    /\ prev' = [state |-> state, aggregation |-> aggregation,
                pending_interim |-> pending_interim,
                done_received_at |-> done_received_at, now |-> now, turn |-> turn]
    /\ nEvents' = nEvents + 1
    /\ nStopped' = nStopped +
          (IF d = DOWNSTREAM /\ f.kind = "UserStoppedSpeakingFrame" THEN 1 ELSE 0)
    /\ nFlushTriggers' = nFlushTriggers +
          (IF FlushTrigger(state, done_received_at, now, f, d) THEN 1 ELSE 0)
    /\ UNCHANGED <<now, twin, serverVars>>

Deliver == \E f \in Frames, d \in FrameDirection : ProcessFrame(f, d)

\* A timer of the aggregator's own that flushes the wait the moment it expires.
Tick_Timer ==
    /\ now < MaxTime
    /\ now' = now + 1
    /\ LET r == check_timeout([Self EXCEPT !.monotonic = now + 1]) IN
       /\ state' = r.state
       /\ aggregation' = r.aggregation
       /\ pending_interim' = r.pending_interim
       /\ done_received_at' = r.done_received_at
       /\ pushed' = pushed \o r.pushed
       /\ flushed' = flushed \o r.flushed
       /\ nTurnMessages' = nTurnMessages + Len(TextsOf(r.pushed))
    /\ UNCHANGED <<frame, direction, prev, nEvents, nStopped, nFlushTriggers, turn,
                   script, twin, serverVars>>

\* time.monotonic() moves on between two calls.
Tick ==
    /\ now < MaxTime
    /\ now' = now + 1
    /\ UNCHANGED <<aggVars, callVars, histVars, twin, serverVars>>

vars == <<aggVars, now, callVars, histVars, twin, serverVars>>

Next == Deliver \/ Tick

Spec == Init /\ [][Next]_vars

TypeOK ==
    /\ state \in UserTurnState
    /\ pending_interim \in BOOLEAN
    /\ now \in 0..MaxTime
    /\ done_received_at = None \/ done_received_at[1] \in 0..MaxTime
    /\ direction \in FrameDirection
    /\ nEvents \in 0..MaxEvents

(* ------------------- two aggregators, one frame sequence --------------- *)

\* The second aggregator as the object its methods act on.
TwinSelf ==
    [state |-> twin.state, aggregation |-> twin.aggregation,
     pending_interim |-> twin.pending_interim,
     done_received_at |-> twin.done_received_at, monotonic |-> twin.monotonic,
     pushed |-> <<>>, flushed |-> <<>>]

\* The same frame delivered to both aggregators, each reading its own clock.
ProcessFrameBoth(f, d) ==
    /\ nEvents < MaxEvents
    /\ LET r == process_frame(Self, f, d)
           t == process_frame(TwinSelf, f, d)
       IN
       /\ state' = r.state
       /\ aggregation' = r.aggregation
       /\ pending_interim' = r.pending_interim
       /\ done_received_at' = r.done_received_at
       /\ pushed' = r.pushed
       /\ twin' = [state |-> t.state, aggregation |-> t.aggregation,
                   pending_interim |-> t.pending_interim,
                   done_received_at |-> t.done_received_at,
                   monotonic |-> twin.monotonic, pushed |-> t.pushed,
                   agree |-> /\ twin.agree
                             /\ d = DOWNSTREAM =>
                                   (Expired(state, done_received_at, now) <=>
                                    Expired(twin.state, twin.done_received_at,
                                            twin.monotonic))]
    /\ frame' = f
    /\ direction' = d
    /\ nEvents' = nEvents + 1
    /\ UNCHANGED <<now, flushed, prev, histVars, serverVars>>

DeliverBoth == \E f \in Frames, d \in FrameDirection : ProcessFrameBoth(f, d)

\* The second aggregator's time.monotonic() moves on between two calls.
TickTwin ==
    /\ twin.monotonic < MaxTime
    /\ twin' = [twin EXCEPT !.monotonic = @ + 1]
    /\ UNCHANGED <<aggVars, now, callVars, histVars, serverVars>>

NextPair == DeliverBoth \/ Tick \/ TickTwin

SpecPair == Init /\ [][NextPair]_vars

(* --------------- one turn, the stop before or after the final ---------- *)

\* test_simple_utterance: the final transcript arrives before the stop.
StoppedLast(t) ==
    <<UserStartedSpeakingFrame, InterimTranscriptionFrame("hell"),
      TranscriptionFrame(t), UserStoppedSpeakingFrame>>

\* test_race_condition_stop_before_final: the stop overtakes it.
StoppedFirst(t) ==
    <<UserStartedSpeakingFrame, InterimTranscriptionFrame("hell"),
      UserStoppedSpeakingFrame, TranscriptionFrame(t)>>

\* The next frame of StoppedLast delivered to the first aggregator and the
\* next frame of StoppedFirst to the second, each reading its own clock; the
\* text of the final transcript is the same in both.
RaceStep ==
    \E t \in FinalTexts :
        /\ nEvents < Len(StoppedLast(t))
        /\ frame.kind = "TranscriptionFrame" => t = frame.text
        /\ LET f == StoppedLast(t)[nEvents + 1]
               g == StoppedFirst(t)[nEvents + 1]
               r == process_frame(Self, f, DOWNSTREAM)
               w == process_frame(TwinSelf, g, DOWNSTREAM)
           IN
           /\ state' = r.state
           /\ aggregation' = r.aggregation
           /\ pending_interim' = r.pending_interim
           /\ done_received_at' = r.done_received_at
           /\ pushed' = r.pushed
           /\ twin' = [state |-> w.state, aggregation |-> w.aggregation,
                       pending_interim |-> w.pending_interim,
                       done_received_at |-> w.done_received_at,
                       monotonic |-> twin.monotonic, pushed |-> w.pushed,
                       agree |-> /\ twin.agree
                                 /\ Expired(state, done_received_at, now) <=>
                                    Expired(twin.state, twin.done_received_at,
                                            twin.monotonic)]
           /\ frame' = f
        /\ direction' = DOWNSTREAM
        /\ nEvents' = nEvents + 1
        /\ UNCHANGED <<now, flushed, prev, histVars, serverVars>>

NextRace == RaceStep \/ Tick \/ TickTwin

SpecRace == Init /\ [][NextRace]_vars

(* ------------------ frames and time that keep coming ------------------- *)

\* One call await aggregator.process_frame(f, d), the turn history not kept.
\* Calls are counted up to MaxEvents; past that only a downstream frame that
\* finds the wait expired is still delivered.
ProcessFrameLive(f, d) ==
    /\ nEvents < MaxEvents \/ (d = DOWNSTREAM /\ Expired(state, done_received_at, now))
    /\ LET r == process_frame(Self, f, d) IN
       /\ state' = r.state
       /\ aggregation' = r.aggregation
       /\ pending_interim' = r.pending_interim
       /\ done_received_at' = r.done_received_at
       /\ pushed' = r.pushed
       /\ flushed' = r.flushed
    /\ frame' = f
    /\ direction' = d
    /\ prev' = [state |-> state, aggregation |-> aggregation,
                pending_interim |-> pending_interim,
                done_received_at |-> done_received_at, now |-> now, turn |-> turn]
    /\ nEvents' = IF nEvents < MaxEvents THEN nEvents + 1 ELSE nEvents
    /\ UNCHANGED <<now, histVars, twin, serverVars>>

DeliverUpstream == \E f \in Frames : ProcessFrameLive(f, UPSTREAM)

DeliverDownstream == \E f \in Frames : ProcessFrameLive(f, DOWNSTREAM)

\* time.monotonic() moves on; past MaxTime only until a wait in progress expires.
TickLive ==
    /\ \/ now < MaxTime
       \/ state = DONE_AWAITING_TRANSCRIPT /\ ~Expired(state, done_received_at, now)
    /\ now' = now + 1
    /\ UNCHANGED <<aggVars, callVars, histVars, twin, serverVars>>

NextLive == DeliverUpstream \/ DeliverDownstream \/ TickLive

\* Time advances and downstream frames keep being delivered.
SpecLive ==
    Init /\ [][NextLive]_vars /\ WF_vars(TickLive) /\ WF_vars(DeliverDownstream)

(* ------------ kairix_agent: session-boundary polling, steps ------------ *)

\* LettaMemoryService.get_messages_since: the messages after the one whose id
\* is after_message_id, oldest first; all of them without a cursor.
get_messages_since(history, after_message_id) ==
    LET skip == IF after_message_id = None THEN 0
                ELSE CHOOSE i \in DOMAIN history : history[i].id = after_message_id[1]
    IN  SubSeq(history, skip + 1, Len(history))

\* The ids of a list of messages: message_ids = [m.id for m in messages].
MessageIds(messages) == [i \in DOMAIN messages |-> messages[i].id]

\* The cursor written after an enqueue, pointing at the first message fetched.
new_cursor_First(messages) == <<messages[1].id>>

\* SummarizationCursor(last_message_id=last_message.id).
new_cursor(messages) == <<messages[Len(messages)].id>>

\* The messages newer than the cursor, told by their place in the history.
AfterCursor(history, cursor) ==
    SelectSeq(history, LAMBDA m : cursor = None \/ m.id > cursor[1])

\* What a poll finds when it begins: the cursor, the ids after it and the age
\* of the newest of them.
Found ==
    LET after == AfterCursor(poller.history, poller.cursor) IN
    [cursor |-> poller.cursor, message_ids |-> MessageIds(after),
     gap |-> IF after = <<>> THEN 0 ELSE poller.clock - after[Len(after)].date,
     enqueued |-> FALSE, raised |-> FALSE]

\* _check_agent_session up to the messages: the agent's config, the cursor,
\* the messages since the cursor. Without an archive, or without a message,
\* it returns.
CheckAgentSession_Fetch ==
    /\ poller.pc = "idle"
    /\ poller.polls < MaxPolls
    /\ LET messages == get_messages_since(poller.history, poller.cursor) IN
       poller' = [poller EXCEPT
                     !.polls = @ + 1,
                     !.checked = Found,
                     !.messages = IF poller.archive_id THEN messages ELSE <<>>,
                     !.pc = IF poller.archive_id /\ messages # <<>>
                            THEN "fetched" ELSE "idle"]
    /\ UNCHANGED <<aggVars, now, callVars, histVars, twin, manager>>

\* _check_agent_session from the gap test to the enqueue: it returns while the
\* session is active; otherwise it enqueues summarize_session with the ids,
\* which may raise.
CheckAgentSession_Enqueue ==
    /\ poller.pc = "fetched"
    /\ LET last_message == poller.messages[Len(poller.messages)]
           gap == poller.clock - last_message.date
       IN  IF gap < SESSION_GAP_MINUTES
           THEN poller' = [poller EXCEPT !.pc = "idle", !.checked.gap = gap]
           ELSE \E raises \in BOOLEAN :
                  poller' = IF raises
                            THEN [poller EXCEPT !.pc = "idle", !.ok = FALSE,
                                                !.checked.gap = gap,
                                                !.checked.raised = TRUE]
                            ELSE [poller EXCEPT !.pc = "enqueued",
                                                !.jobs = Append(@, MessageIds(poller.messages)),
                                                !.checked.gap = gap,
                                                !.checked.enqueued = TRUE]
    /\ UNCHANGED <<aggVars, now, callVars, histVars, twin, manager>>

\* _check_agent_session, the cursor write: CursorStore.set_cursor, which may raise.
CheckAgentSession_SetCursor ==
    /\ poller.pc = "enqueued"
    /\ \E raises \in BOOLEAN :
          poller' = IF raises
                    THEN [poller EXCEPT !.pc = "idle", !.ok = FALSE,
                                        !.checked.raised = TRUE]
                    ELSE [poller EXCEPT !.pc = "idle",
                                        !.cursor = new_cursor(poller.messages)]
    /\ UNCHANGED <<aggVars, now, callVars, histVars, twin, manager>>

\* The agent's conversation gains a message, dated now.
NewMessage ==
    /\ Len(poller.history) < MaxMessages
    /\ poller' = [poller EXCEPT
                     !.history = Append(@, [id |-> Len(@) + 1, date |-> poller.clock])]
    /\ UNCHANGED <<aggVars, now, callVars, histVars, twin, manager>>

\* A minute passes.
Minute ==
    /\ poller.clock < MaxMinutes
    /\ poller' = [poller EXCEPT !.clock = @ + 1]
    /\ UNCHANGED <<aggVars, now, callVars, histVars, twin, manager>>

\* The worker started for an agent with or without an archive.
InitPoll ==
    /\ AggregatorInit
    /\ \E archive \in BOOLEAN : poller = NewPoller(archive)
    /\ manager = NewManager

NextPoll ==
    \/ CheckAgentSession_Fetch
    \/ CheckAgentSession_Enqueue
    \/ CheckAgentSession_SetCursor
    \/ NewMessage
    \/ Minute

SpecPoll == InitPoll /\ [][NextPoll]_vars

(* ---------------- kairix_agent: event fan-out, steps ------------------- *)

\* self._connections.get(agent_id, []): the agent's sockets, none without the key.
connections_get(connections, agent_id) ==
    IF agent_id \in DOMAIN connections THEN connections[agent_id] ELSE {}

\* Every socket in the registry.
Connected ==
    UNION {manager.connections[a] : a \in DOMAIN manager.connections}

\* list(a set): the set's members, each once, in some order.
Listings(set) ==
    {l \in [1..Cardinality(set) -> set] : \A w \in set : \E i \in DOMAIN l : l[i] = w}

\* events_endpoint up to the receive loop: a new connection is accepted and
\* ConnectionManager.register adds it to the agent's set under the lock.
Register(agent_id, websocket) ==
    /\ websocket \notin Connected
    /\ websocket \notin manager.closed
    /\ manager' = [manager EXCEPT
                      !.connections =
                         [a \in DOMAIN @ \cup {agent_id} |->
                             IF a = agent_id
                             THEN connections_get(@, a) \cup {websocket}
                             ELSE @[a]]]
    /\ UNCHANGED <<aggVars, now, callVars, histVars, twin, poller>>

\* The client goes away: a send on the connection raises from now on.
Disconnect(websocket) ==
    /\ websocket \in Connected
    /\ websocket \notin manager.closed
    /\ manager' = [manager EXCEPT !.closed = @ \cup {websocket}]
    /\ UNCHANGED <<aggVars, now, callVars, histVars, twin, poller>>

\* events_endpoint's finally: ConnectionManager.unregister discards the
\* connection under the lock and deletes the agent's key when its set is empty.
Unregister(agent_id, websocket) ==
    /\ websocket \in connections_get(manager.connections, agent_id)
    /\ websocket \in manager.closed
    /\ LET rest == connections_get(manager.connections, agent_id) \ {websocket}
           keys == IF rest = {} THEN DOMAIN manager.connections \ {agent_id}
                   ELSE DOMAIN manager.connections
       IN  manager' = [manager EXCEPT
                         !.connections =
                            [a \in keys |-> IF a = agent_id THEN rest ELSE @[a]]]
    /\ UNCHANGED <<aggVars, now, callVars, histVars, twin, poller>>

\* ConnectionManager.dispatch up to the loop: the snapshot of the agent's
\* sockets under the lock; without a socket it returns.
Dispatch_Snapshot(agent_id) ==
    /\ manager.pc = "idle"
    /\ \E sockets \in Listings(connections_get(manager.connections, agent_id)) :
          manager' = [manager EXCEPT
                         !.agent_id = agent_id,
                         !.sockets = sockets,
                         !.sent = <<>>,
                         !.delivered = {},
                         !.registered = connections_get(manager.connections, agent_id),
                         !.elsewhere = Connected \ connections_get(manager.connections, agent_id),
                         !.pc = IF sockets = <<>> THEN "idle" ELSE "sending"]
    /\ UNCHANGED <<aggVars, now, callVars, histVars, twin, poller>>

\* One turn of the loop with the first exception ending the dispatch.
Dispatch_Send_Abort ==
    /\ manager.pc = "sending"
    /\ LET ws == manager.sockets[Len(manager.sent) + 1] IN
       \E raises \in IF ws \in manager.closed THEN {TRUE} ELSE BOOLEAN :
          manager' = [manager EXCEPT
                         !.sent = Append(@, ws),
                         !.delivered = IF raises THEN @ ELSE @ \cup {ws},
                         !.pc = IF raises \/ Len(manager.sent) + 1 = Len(manager.sockets)
                                THEN "idle" ELSE "sending"]
    /\ UNCHANGED <<aggVars, now, callVars, histVars, twin, poller>>

\* ConnectionManager.dispatch, one turn of the loop: send_text on the next
\* socket of the snapshot; an exception is logged and the loop goes on.
Dispatch_Send ==
    /\ manager.pc = "sending"
    /\ LET ws == manager.sockets[Len(manager.sent) + 1] IN
       \E raises \in IF ws \in manager.closed THEN {TRUE} ELSE BOOLEAN :
          manager' = [manager EXCEPT
                         !.sent = Append(@, ws),
                         !.delivered = IF raises THEN @ ELSE @ \cup {ws},
                         !.pc = IF Len(manager.sent) + 1 = Len(manager.sockets)
                                THEN "idle" ELSE "sending"]
    /\ UNCHANGED <<aggVars, now, callVars, histVars, twin, poller>>

NextFanout ==
    \/ \E agent_id \in Agents, websocket \in WebSockets : Register(agent_id, websocket)
    \/ \E websocket \in WebSockets : Disconnect(websocket)
    \/ \E agent_id \in Agents, websocket \in WebSockets : Unregister(agent_id, websocket)
    \/ \E agent_id \in Agents : Dispatch_Snapshot(agent_id)
    \/ Dispatch_Send

SpecFanout == Init /\ [][NextFanout]_vars

(* ------------------------ reading the latest call ---------------------- *)

Called == nEvents > 0

Lifecycle ==
    {"UserStartedSpeakingFrame", "InterimTranscriptionFrame", "TranscriptionFrame",
     "UserStoppedSpeakingFrame"}

\* The wait had expired when the latest call began.
PrevExpired == Expired(prev.state, prev.done_received_at, prev.now)

\* The latest call opened a turn.
LastOpened == Called /\ Opens(prev.state, prev.done_received_at, prev.now, frame, direction)

\* The aggregator's fields are as the latest call found them.
FieldsUnchanged ==
    /\ state = prev.state
    /\ aggregation = prev.aggregation
    /\ pending_interim = prev.pending_interim
    /\ done_received_at = prev.done_received_at

HasText(texts) == \E i \in DOMAIN texts : texts[i] # ""

\* What push_turn_message leaves behind for a buffer b.
Flush(b) ==
    [buffer |-> b, state |-> IDLE, aggregation |-> "", pending_interim |-> FALSE,
     done_received_at |-> None]

\* The latest call ran on one of the four paths that reach push_turn_message.
EmissionPath ==
    /\ Called
    /\ direction = DOWNSTREAM
    /\ \/ /\ prev.state = SPEAKING_RECEIVED_TRANSCRIPT
          /\ frame.kind = "UserStoppedSpeakingFrame"
          /\ ~prev.pending_interim
       \/ /\ prev.state = DONE_AWAITING_TRANSCRIPT
          /\ PrevExpired \/ frame.kind \in {"TranscriptionFrame", "UserStartedSpeakingFrame"}

(* -------------------------------- claims ------------------------------- *)

\* C1: no duplicate emission. The UserTurnMessageFrames pushed so far are at
\* most the downstream UserStoppedSpeakingFrames plus the flush-triggering
\* frames (a UserStartedSpeakingFrame during the wait, a frame after expiry);
\* a call pushes at most one; a turn gets at most one, the turn a call closes
\* by opening the next included; and the buffer a message carried is cleared in
\* the same call, so no second message can carry it.
C1_NoDuplicateEmission ==
    /\ nTurnMessages <= nStopped + nFlushTriggers
    /\ Len(TextsOf(pushed)) <= 1
    /\ Len(turn.messages) <= 1
    /\ LastOpened => Len(prev.turn.messages) + Len(TextsOf(pushed)) <= 1
    /\ \A i \in DOMAIN pushed :
          IsTurnMessage(pushed[i]) => flushed = <<Flush(pushed[i].frame.text)>>

\* A message was flushed by a UserStartedSpeakingFrame or an expiry, after
\* which further frames arrived.
C1_Witness ==
    /\ nTurnMessages = 1
    /\ nFlushTriggers = 1
    /\ nStopped = 1
    /\ turn.messages = <<>>
    /\ prev.turn.messages = <<>>
    /\ LastOpened
    /\ TextsOf(pushed) # <<>>

\* C2: a UserTurnMessageFrame never has empty text. push_turn_message is
\* reached at most once a call and only on the four emission paths; finding
\* the buffer empty it pushes nothing and resets to IDLE, finding text it
\* pushes exactly that text.
C2_NonEmptyTurnMessage ==
    /\ \A i \in DOMAIN pushed : IsTurnMessage(pushed[i]) => pushed[i].frame.text # ""
    /\ Len(flushed) <= 1
    /\ flushed # <<>> <=> EmissionPath
    /\ \A i \in DOMAIN flushed :
          /\ flushed[i] = Flush(flushed[i].buffer)
          /\ TextsOf(pushed) = IF flushed[i].buffer = "" THEN <<>> ELSE <<flushed[i].buffer>>

\* push_turn_message found an empty buffer when the final transcript of the
\* wait arrived empty.
C2_Witness ==
    /\ flushed = <<Flush("")>>
    /\ prev.state = DONE_AWAITING_TRANSCRIPT
    /\ frame = TranscriptionFrame("")
    /\ ~PrevExpired
    /\ pushed = <<>>
    /\ state = IDLE

\* C3: the text of a UserTurnMessageFrame is the texts of the final
\* transcripts appended since the turn opened, joined in arrival order with
\* nothing between them, and so is the buffer while a turn is open; "Hello. ",
\* "How are you? ", "I'm fine." then a stop give one message
\* "Hello. How are you? I'm fine." and IDLE.
C3_ConcatenationOrder ==
    /\ state # IDLE => aggregation = Concat(turn.finals)
    /\ \A i \in DOMAIN pushed :
          IsTurnMessage(pushed[i]) =>
             pushed[i].frame.text =
                Concat(IF LastOpened THEN prev.turn.finals ELSE turn.finals)
    /\ script.inputs = MultipleTranscripts =>
          /\ TextsOf(script.pushed) = <<"Hello. How are you? I'm fine.">>
          /\ state = IDLE

C3_Witness ==
    /\ script.inputs = MultipleTranscripts
    /\ turn.finals = <<"Hello. ", "How are you? ", "I'm fine.">>
    /\ pushed = <<Down(UserTurnMessageFrame("Hello. How are you? I'm fine.")),
                  Down(UserStoppedSpeakingFrame)>>

\* What the race scenario is said to yield: the one message "hello", pushed by
\* the call that delivered the final transcript, and IDLE.
RaceResolved ==
    /\ TextsOf(script.pushed) = <<"hello">>
    /\ pushed = <<Down(UserTurnMessageFrame("hello"))>>
    /\ state = IDLE

\* C4 as stated: started, interim "hell", stopped, final "hello" from IDLE
\* yields exactly one message "hello", at the final transcript, and IDLE.
C4_Original == script.inputs = StopBeforeFinal => RaceResolved

\* C4: the same, provided the final transcript arrives less than
\* aggregation_timeout after the stop.
C4_RaceResolution ==
    (/\ script.inputs = StopBeforeFinal
     /\ prev.done_received_at # None
     /\ prev.now - prev.done_received_at[1] < AggregationTimeout) => RaceResolved

\* The final transcript arrived one tick after the stop.
C4_Witness ==
    /\ script.inputs = StopBeforeFinal
    /\ prev.done_received_at # None
    /\ prev.now - prev.done_received_at[1] = AggregationTimeout - 1
    /\ RaceResolved

\* C5: exactly-once emission. A turn to which a non-empty final transcript was
\* appended has exactly one message, carrying its appended text, once the
\* aggregator is in IDLE again or has opened the next turn.
C5_ExactlyOnce ==
    /\ (state = IDLE /\ HasText(turn.finals)) =>
          turn.messages = <<Concat(turn.finals)>>
    /\ (LastOpened /\ HasText(prev.turn.finals)) =>
          prev.turn.messages \o TextsOf(pushed) = <<Concat(prev.turn.finals)>>

\* The stop came before the turn's last final transcript.
C5_Witness ==
    /\ state = IDLE
    /\ prev.state = DONE_AWAITING_TRANSCRIPT
    /\ direction = DOWNSTREAM
    /\ frame = TranscriptionFrame("How are you? ")
    /\ turn.finals = <<"Hello. ", "How are you? ">>
    /\ turn.messages = <<"Hello. How are you? ">>

\* The latest call found the wait with text buffered and the stop more than
\* aggregation_timeout in the past.
LongExpired ==
    /\ Called
    /\ prev.state = DONE_AWAITING_TRANSCRIPT
    /\ prev.aggregation # ""
    /\ prev.done_received_at # None
    /\ prev.now - prev.done_received_at[1] > AggregationTimeout

\* The whole buffer was pushed first and the aggregator reset to IDLE.
FlushedFirst ==
    /\ pushed # <<>>
    /\ pushed[1] = Down(UserTurnMessageFrame(prev.aggregation))
    /\ flushed = <<Flush(prev.aggregation)>>

\* C6 as stated: any frame delivered then causes the flush.
C6_Original == LongExpired => FlushedFirst

\* C6: any DOWNSTREAM frame delivered then causes the flush, before the frame
\* is handled as in IDLE: the message is pushed first, and the call ends in
\* IDLE, or in SPEAKING_AWAITING_TRANSCRIPT for a UserStartedSpeakingFrame.
C6_TimeoutFlush ==
    (LongExpired /\ direction = DOWNSTREAM) =>
        /\ FlushedFirst
        /\ state = IF frame.kind = "UserStartedSpeakingFrame"
                   THEN SPEAKING_AWAITING_TRANSCRIPT ELSE IDLE
        /\ aggregation = ""
        /\ ~pending_interim
        /\ done_received_at = None

\* The test's case: an unrelated frame after expiry, relayed after the message.
C6_Witness ==
    /\ LongExpired
    /\ direction = DOWNSTREAM
    /\ frame = TextFrame("unrelated")
    /\ pushed = <<Down(UserTurnMessageFrame(prev.aggregation)), Down(frame)>>
    /\ state = IDLE

\* C7: a downstream UserStartedSpeakingFrame during the wait, text buffered and
\* the timeout not expired, pushes the old buffer, then relays the frame, and
\* leaves SPEAKING_AWAITING_TRANSCRIPT with empty buffer, pending_interim
\* false and done_received_at None.
C7_MidWaitNewTurn ==
    (/\ Called
     /\ prev.state = DONE_AWAITING_TRANSCRIPT
     /\ prev.aggregation # ""
     /\ ~PrevExpired
     /\ direction = DOWNSTREAM
     /\ frame = UserStartedSpeakingFrame) =>
        /\ pushed = <<Down(UserTurnMessageFrame(prev.aggregation)), Down(frame)>>
        /\ state = SPEAKING_AWAITING_TRANSCRIPT
        /\ aggregation = ""
        /\ ~pending_interim
        /\ done_received_at = None
        /\ turn = NoTurn

C7_Witness ==
    /\ prev.state = DONE_AWAITING_TRANSCRIPT
    /\ prev.aggregation = "Hello. "
    /\ ~PrevExpired
    /\ direction = DOWNSTREAM
    /\ frame = UserStartedSpeakingFrame
    /\ state = SPEAKING_AWAITING_TRANSCRIPT

\* C8: from IDLE, started then stopped with nothing between relays both
\* frames, pushes no message and ends in IDLE.
C8_EmptyTurnSuppression ==
    script.inputs = StartThenStop =>
        /\ script.pushed = <<Down(UserStartedSpeakingFrame), Down(UserStoppedSpeakingFrame)>>
        /\ state = IDLE

C8_Witness ==
    /\ script.inputs = StartThenStop
    /\ prev.state = SPEAKING_AWAITING_TRANSCRIPT
    /\ frame = UserStoppedSpeakingFrame
    /\ state = IDLE

\* C9: an UPSTREAM frame of any kind, in any state, is relayed once, unchanged
\* and upstream, pushes no message, and leaves state, aggregation,
\* pending_interim and done_received_at as they were.
C9_UpstreamPassThrough ==
    (Called /\ direction = UPSTREAM) =>
        /\ pushed = <<[frame |-> frame, direction |-> UPSTREAM]>>
        /\ flushed = <<>>
        /\ FieldsUnchanged

\* An upstream stop arriving after the wait has expired.
C9_Witness ==
    /\ direction = UPSTREAM
    /\ frame = UserStoppedSpeakingFrame
    /\ PrevExpired
    /\ prev.aggregation # ""
    /\ state = DONE_AWAITING_TRANSCRIPT

\* C10: in IDLE a downstream frame of none of the four lifecycle kinds is
\* relayed exactly once and leaves the state IDLE and the buffer empty.
C10_IdempotentIdle ==
    (/\ Called
     /\ prev.state = IDLE
     /\ direction = DOWNSTREAM
     /\ frame.kind \notin Lifecycle) =>
        /\ pushed = <<Down(frame)>>
        /\ state = IDLE
        /\ aggregation = ""
        /\ FieldsUnchanged

C10_Witness ==
    /\ nEvents > 1
    /\ prev.state = IDLE
    /\ direction = DOWNSTREAM
    /\ frame = TextFrame("unrelated")
    /\ state = IDLE

(* ---------------------- more on the latest call ------------------------ *)

\* The push_frame calls that relay a frame, the turn messages left out.
Relayed(calls) == SelectSeq(calls, LAMBDA p : ~IsTurnMessage(p))

\* The handler state the latest call dispatched its frame to.
PrevDispatched == Dispatched(prev.state, prev.done_received_at, prev.now, direction)

\* The latest call appended its final transcript to the open turn.
LastAppended ==
    Called /\ Appends(prev.state, prev.done_received_at, prev.now, frame, direction)

\* The text the buffer held in the latest call, the transcript it appended included.
Buffered == IF LastAppended THEN prev.aggregation \o frame.text ELSE prev.aggregation

\* The latest call delivered a frame its handler does not expect: a transcript
\* or a stop with no turn open, a second start, a second stop during the wait.
Anomalous ==
    /\ Called
    /\ direction = DOWNSTREAM
    /\ \/ /\ PrevDispatched = IDLE
          /\ frame.kind \in {"InterimTranscriptionFrame", "TranscriptionFrame",
                             "UserStoppedSpeakingFrame"}
       \/ /\ PrevDispatched \in {SPEAKING_AWAITING_TRANSCRIPT, SPEAKING_RECEIVED_TRANSCRIPT}
          /\ frame.kind = "UserStartedSpeakingFrame"
       \/ /\ PrevDispatched = DONE_AWAITING_TRANSCRIPT
          /\ frame.kind = "UserStoppedSpeakingFrame"

\* C12: no text is dropped. After a call the buffer is empty or holds all it
\* held during the call; text leaves it only in a UserTurnMessageFrame carrying
\* exactly that text, pushed by the same call; a reset that pushes no message
\* found the buffer empty; and a call that pushes a message ends with the
\* buffer empty.
C12_NoTextDropped ==
    Called =>
        /\ aggregation \in {"", Buffered}
        /\ (aggregation = "" /\ Buffered # "") => TextsOf(pushed) = <<Buffered>>
        /\ (prev.state # IDLE /\ (state = IDLE \/ flushed # <<>>) /\ TextsOf(pushed) = <<>>) =>
              Buffered = ""
        /\ TextsOf(pushed) # <<>> => aggregation = ""

\* The final transcript of the wait left the buffer together with what was buffered.
C12_Witness ==
    /\ prev.state = DONE_AWAITING_TRANSCRIPT
    /\ prev.aggregation = "Hello. "
    /\ frame = TranscriptionFrame("I'm fine.")
    /\ LastAppended
    /\ aggregation = ""
    /\ pushed = <<Down(UserTurnMessageFrame("Hello. I'm fine."))>>

\* C13: done_received_at is set exactly in DONE_AWAITING_TRANSCRIPT: the call
\* that enters the state records its clock reading, and the call that leaves
\* it (a final transcript, a start, an expiry) clears it.
C13_DoneReceivedAt ==
    /\ done_received_at # None <=> state = DONE_AWAITING_TRANSCRIPT
    /\ (Called /\ prev.state # DONE_AWAITING_TRANSCRIPT /\ state = DONE_AWAITING_TRANSCRIPT) =>
          done_received_at = <<prev.now>>
    /\ (Called /\ prev.state = DONE_AWAITING_TRANSCRIPT /\ state # DONE_AWAITING_TRANSCRIPT) =>
          /\ done_received_at = None
          /\ direction = DOWNSTREAM
          /\ PrevExpired \/ frame.kind \in {"TranscriptionFrame", "UserStartedSpeakingFrame"}

\* The wait was entered from SPEAKING_RECEIVED_TRANSCRIPT one tick after the start.
C13_Witness ==
    /\ state = DONE_AWAITING_TRANSCRIPT
    /\ prev.state = SPEAKING_RECEIVED_TRANSCRIPT
    /\ prev.now = 1
    /\ done_received_at = <<1>>
    /\ now = 2

\* C14: the buffer is empty in IDLE and in SPEAKING_AWAITING_TRANSCRIPT, and
\* pending_interim is false in IDLE.
C14_EmptyWhenNoFinal ==
    /\ state \in {IDLE, SPEAKING_AWAITING_TRANSCRIPT} => aggregation = ""
    /\ state = IDLE => ~pending_interim

\* IDLE reached from a wait that held text and a pending interim.
C14_Witness ==
    /\ state = IDLE
    /\ prev.state = DONE_AWAITING_TRANSCRIPT
    /\ prev.aggregation # ""
    /\ prev.pending_interim
    /\ PrevExpired
    /\ frame = UserStoppedSpeakingFrame

\* C15: process_frame is total. In every reachable state a handler exists for
\* the state, every frame in either direction is processed, and the state it
\* leaves is one of the four; a frame its handler does not expect is discarded
\* (a transcript) or relayed once (a start, a stop) and changes neither the
\* state it was dispatched in, nor the buffer, nor the pending flag.
C15_TotalTransition ==
    /\ state \in UserTurnState
    /\ state \in DOMAIN Handlers
    /\ \A f \in Frames, d \in FrameDirection :
          process_frame(Self, f, d).state \in UserTurnState
    /\ Anomalous =>
          /\ state = PrevDispatched
          /\ aggregation = IF PrevExpired THEN "" ELSE prev.aggregation
          /\ pending_interim = IF PrevExpired THEN FALSE ELSE prev.pending_interim
          /\ Relayed(pushed) =
                IF frame.kind \in {"UserStartedSpeakingFrame", "UserStoppedSpeakingFrame"}
                THEN <<Down(frame)>> ELSE <<>>

\* A final transcript arrived with no turn open, after a turn had come and gone.
C15_Witness ==
    /\ Anomalous
    /\ nEvents > 2
    /\ prev.state = IDLE
    /\ frame = TranscriptionFrame("hello")
    /\ pushed = <<>>
    /\ state = IDLE

\* A downstream frame of none of the four lifecycle kinds was delivered.
OtherDelivered == Called /\ direction = DOWNSTREAM /\ frame.kind \notin Lifecycle

\* C18 as stated: in every state such a frame is relayed once and changes
\* neither state, buffer nor pending_interim.
C18_Original ==
    OtherDelivered =>
        /\ pushed = <<Down(frame)>>
        /\ state = prev.state
        /\ aggregation = prev.aggregation
        /\ pending_interim = prev.pending_interim

\* C18: such a frame is relayed unchanged exactly once in every state, and
\* changes nothing unless it finds the wait expired, when the timeout flush
\* comes first.
C18_OtherPassThrough ==
    OtherDelivered =>
        /\ Relayed(pushed) = <<Down(frame)>>
        /\ ~PrevExpired => (pushed = <<Down(frame)>> /\ flushed = <<>> /\ FieldsUnchanged)

\* The frame arrived mid-turn, text buffered and an interim pending.
C18_Witness ==
    /\ OtherDelivered
    /\ prev.state = SPEAKING_RECEIVED_TRANSCRIPT
    /\ prev.aggregation = "Hello. "
    /\ prev.pending_interim
    /\ state = SPEAKING_RECEIVED_TRANSCRIPT

\* C19: the downstream frame that finds the wait expired is handled, after the
\* flush, as IDLE handles it with an empty buffer: a transcript is discarded
\* (not relayed, not buffered, not added to the turn), a start is relayed and
\* opens a turn, a stop or any other frame is relayed and the state stays IDLE.
C19_HandledAsIdle ==
    (Called /\ direction = DOWNSTREAM /\ PrevExpired) =>
        /\ flushed = <<Flush(prev.aggregation)>>
        /\ aggregation = ""
        /\ ~pending_interim
        /\ done_received_at = None
        /\ CASE frame.kind \in {"InterimTranscriptionFrame", "TranscriptionFrame"} ->
                  /\ Relayed(pushed) = <<>>
                  /\ state = IDLE
                  /\ turn.finals = prev.turn.finals
             [] frame.kind = "UserStartedSpeakingFrame" ->
                  /\ Relayed(pushed) = <<Down(frame)>>
                  /\ state = SPEAKING_AWAITING_TRANSCRIPT
                  /\ turn = NoTurn
             [] OTHER ->
                  /\ Relayed(pushed) = <<Down(frame)>>
                  /\ state = IDLE

\* A final transcript came too late: the partial turn was pushed without it.
C19_Witness ==
    /\ PrevExpired
    /\ direction = DOWNSTREAM
    /\ frame = TranscriptionFrame("hello")
    /\ prev.aggregation = "Hello. "
    /\ pushed = <<Down(UserTurnMessageFrame("Hello. "))>>
    /\ state = IDLE

\* A downstream stop was delivered in SPEAKING_RECEIVED_TRANSCRIPT.
StoppedInReceived ==
    /\ Called
    /\ prev.state = SPEAKING_RECEIVED_TRANSCRIPT
    /\ direction = DOWNSTREAM
    /\ frame = UserStoppedSpeakingFrame

\* With an interim pending the stop enters the wait and only the stop is relayed.
WaitEntered ==
    /\ state = DONE_AWAITING_TRANSCRIPT
    /\ done_received_at = <<prev.now>>
    /\ aggregation = prev.aggregation
    /\ pushed = <<Down(frame)>>

\* C20 as stated: without a pending interim a message with the buffer is
\* pushed, then the stop relayed, the buffer cleared and the state IDLE.
C20_Original ==
    StoppedInReceived =>
        IF prev.pending_interim THEN WaitEntered
        ELSE /\ pushed = <<Down(UserTurnMessageFrame(prev.aggregation)), Down(frame)>>
             /\ aggregation = ""
             /\ state = IDLE

\* C20: the same, the message being pushed only for a non-empty buffer; an
\* empty buffer is reset without one.
C20_StopInReceived ==
    StoppedInReceived =>
        IF prev.pending_interim THEN WaitEntered
        ELSE /\ pushed = (IF prev.aggregation # ""
                          THEN <<Down(UserTurnMessageFrame(prev.aggregation))>>
                          ELSE <<>>) \o <<Down(frame)>>
             /\ aggregation = ""
             /\ state = IDLE

\* Two fragments were buffered and no interim pending at the stop.
C20_Witness ==
    /\ StoppedInReceived
    /\ ~prev.pending_interim
    /\ prev.aggregation = "How are you? I'm fine."
    /\ pushed = <<Down(UserTurnMessageFrame("How are you? I'm fine.")), Down(frame)>>
    /\ state = IDLE

\* The second aggregator emitted what the first did and is in the same state
\* with the same buffer and pending flag.
TwinSame ==
    /\ twin.pushed = pushed
    /\ twin.state = state
    /\ twin.aggregation = aggregation
    /\ twin.pending_interim = pending_interim

\* C11 as stated: fed the same frames, the two aggregators emit the same
\* frames call by call and are in the same state after every call.
C11_Original == TwinSame

\* C11: two aggregators started in the initial state and fed the same frames
\* emit the same frames call by call and end in the same state, with the same
\* buffer and pending flag, provided every downstream frame finds the wait
\* expired in both or in neither; the clock readings themselves, and the
\* done_received_at they leave, may differ.
C11_Determinism ==
    twin.agree =>
        /\ TwinSame
        /\ twin.done_received_at = None <=> done_received_at = None

\* Both finished the same turn out of the wait, having stopped at different
\* readings of their clocks.
C11_Witness ==
    /\ twin.agree
    /\ twin.monotonic # now
    /\ frame = TranscriptionFrame("I'm fine.")
    /\ direction = DOWNSTREAM
    /\ pushed = <<Down(UserTurnMessageFrame("Hello. I'm fine."))>>
    /\ twin.pushed = pushed
    /\ state = IDLE

\* C16: the timeout has no timer. From DONE_AWAITING_TRANSCRIPT with text
\* buffered, a step in which no frame is delivered leaves state, buffer,
\* pending flag and done_received_at as they were and pushes nothing,
\* whatever the clock reads.
C16_NoTimer ==
    [][(state = DONE_AWAITING_TRANSCRIPT /\ aggregation # "" /\ nEvents' = nEvents) =>
          /\ UNCHANGED <<aggVars, pushed, flushed, nTurnMessages>>
          /\ state' = DONE_AWAITING_TRANSCRIPT]_vars

\* The wait is long expired and the text still buffered: the stop was the last
\* frame delivered.
C16_Witness ==
    /\ state = DONE_AWAITING_TRANSCRIPT
    /\ aggregation = "Hello. "
    /\ frame = UserStoppedSpeakingFrame
    /\ now - done_received_at[1] > AggregationTimeout
    /\ nTurnMessages = 0

\* The call that processed a downstream frame found expired is out of the wait.
WaitOver ==
    (Called /\ direction = DOWNSTREAM /\ PrevExpired) =>
        state \in {IDLE, SPEAKING_AWAITING_TRANSCRIPT}

\* C17: the wait is bounded. The first downstream frame processed at or after
\* done_received_at + aggregation_timeout leaves the aggregator out of the
\* wait; so, time advancing and downstream frames being delivered, every
\* DONE_AWAITING_TRANSCRIPT leads to IDLE or SPEAKING_AWAITING_TRANSCRIPT.
C17_BoundedWait ==
    /\ []WaitOver
    /\ (state = DONE_AWAITING_TRANSCRIPT) ~> (state \in {IDLE, SPEAKING_AWAITING_TRANSCRIPT})

\* The last call counted delivered an unrelated frame to a wait that had
\* expired with text buffered, and ended it.
C17_Witness ==
    /\ prev.state = DONE_AWAITING_TRANSCRIPT
    /\ PrevExpired
    /\ prev.aggregation # ""
    /\ direction = DOWNSTREAM
    /\ frame.kind \notin Lifecycle
    /\ state = IDLE
    /\ nEvents = MaxEvents

\* The latest call delivered a downstream frame of kind k to the handler of
\* state st, no timeout flush before it.
Handled(st, k) ==
    /\ Called
    /\ direction = DOWNSTREAM
    /\ prev.state = st
    /\ ~PrevExpired
    /\ frame.kind = k

\* C21: SPEAKING_AWAITING_TRANSCRIPT + downstream UserStoppedSpeakingFrame. With
\* an interim pending the state becomes DONE_AWAITING_TRANSCRIPT and
\* done_received_at is the clock reading of the call; otherwise the state
\* becomes IDLE; either way the stop is the one frame pushed.
C21_StopInAwaiting ==
    Handled(SPEAKING_AWAITING_TRANSCRIPT, "UserStoppedSpeakingFrame") =>
        /\ pushed = <<Down(frame)>>
        /\ aggregation = ""
        /\ IF prev.pending_interim
           THEN /\ state = DONE_AWAITING_TRANSCRIPT
                /\ done_received_at = <<prev.now>>
                /\ pending_interim
           ELSE /\ state = IDLE
                /\ done_received_at = None
                /\ ~pending_interim

\* The stop came one tick after an interim and before any final transcript.
C21_Witness ==
    /\ Handled(SPEAKING_AWAITING_TRANSCRIPT, "UserStoppedSpeakingFrame")
    /\ prev.pending_interim
    /\ prev.now = 1
    /\ state = DONE_AWAITING_TRANSCRIPT
    /\ done_received_at = <<1>>
    /\ pushed = <<Down(UserStoppedSpeakingFrame)>>

\* The wait ended in IDLE with the fields reset.
BackToIdle ==
    /\ state = IDLE
    /\ aggregation = ""
    /\ ~pending_interim
    /\ done_received_at = None

\* C22 as stated: a final transcript before the timeout pushes exactly one
\* frame, the message carrying old buffer + text.
C22_Original ==
    Handled(DONE_AWAITING_TRANSCRIPT, "TranscriptionFrame") =>
        /\ pushed = <<Down(UserTurnMessageFrame(prev.aggregation \o frame.text))>>
        /\ BackToIdle

\* C22: DONE_AWAITING_TRANSCRIPT + downstream TranscriptionFrame before the
\* timeout. The text is appended; the message carrying old buffer + text is
\* the one frame pushed when that text is non-empty, and nothing is pushed
\* when it is empty; the transcript is not relayed; the state is IDLE, the
\* buffer empty and pending_interim false.
C22_FinalInWait ==
    Handled(DONE_AWAITING_TRANSCRIPT, "TranscriptionFrame") =>
        /\ pushed = IF prev.aggregation \o frame.text # ""
                    THEN <<Down(UserTurnMessageFrame(prev.aggregation \o frame.text))>>
                    ELSE <<>>
        /\ flushed = <<Flush(prev.aggregation \o frame.text)>>
        /\ BackToIdle

\* The final transcript completed a buffer one tick into the wait.
C22_Witness ==
    /\ Handled(DONE_AWAITING_TRANSCRIPT, "TranscriptionFrame")
    /\ prev.aggregation = "How are you? "
    /\ frame.text = "I'm fine."
    /\ prev.now = prev.done_received_at[1] + 1
    /\ pushed = <<Down(UserTurnMessageFrame("How are you? I'm fine."))>>
    /\ state = IDLE

\* C23: a downstream TranscriptionFrame in SPEAKING_AWAITING_TRANSCRIPT or
\* SPEAKING_RECEIVED_TRANSCRIPT is appended to the end of the buffer, clears
\* pending_interim, leaves the state SPEAKING_RECEIVED_TRANSCRIPT and pushes
\* nothing.
C23_FinalWhileSpeaking ==
    (\/ Handled(SPEAKING_AWAITING_TRANSCRIPT, "TranscriptionFrame")
     \/ Handled(SPEAKING_RECEIVED_TRANSCRIPT, "TranscriptionFrame")) =>
        /\ aggregation = prev.aggregation \o frame.text
        /\ ~pending_interim
        /\ state = SPEAKING_RECEIVED_TRANSCRIPT
        /\ done_received_at = None
        /\ pushed = <<>>
        /\ flushed = <<>>

\* A second fragment joined the first while an interim was pending.
C23_Witness ==
    /\ Handled(SPEAKING_RECEIVED_TRANSCRIPT, "TranscriptionFrame")
    /\ prev.pending_interim
    /\ prev.aggregation = "Hello. "
    /\ frame.text = "How are you? "
    /\ aggregation = "Hello. How are you? "
    /\ ~pending_interim

\* C24: a downstream InterimTranscriptionFrame in one of the three non-idle
\* states (before expiry during the wait) sets pending_interim, pushes
\* nothing and leaves state, buffer and done_received_at as they were.
C24_InterimMarksPending ==
    (\E st \in UserTurnState \ {IDLE} : Handled(st, "InterimTranscriptionFrame")) =>
        /\ pending_interim
        /\ pushed = <<>>
        /\ flushed = <<>>
        /\ state = prev.state
        /\ aggregation = prev.aggregation
        /\ done_received_at = prev.done_received_at

\* An interim arrived mid-turn after a fragment whose final had cleared the flag.
C24_Witness ==
    /\ Handled(SPEAKING_RECEIVED_TRANSCRIPT, "InterimTranscriptionFrame")
    /\ ~prev.pending_interim
    /\ frame.text = "hell"
    /\ prev.aggregation = "Hello. "
    /\ aggregation = "Hello. "
    /\ pending_interim

\* C25: in IDLE a downstream InterimTranscriptionFrame or TranscriptionFrame is
\* discarded: nothing is pushed, the fields stay as they were (state IDLE,
\* buffer empty, pending_interim false) and the text joins no turn, so no
\* later message carries it.
C25_DiscardedInIdle ==
    (\/ Handled(IDLE, "InterimTranscriptionFrame")
     \/ Handled(IDLE, "TranscriptionFrame")) =>
        /\ pushed = <<>>
        /\ flushed = <<>>
        /\ state = IDLE
        /\ aggregation = ""
        /\ ~pending_interim
        /\ done_received_at = None
        /\ turn = prev.turn

\* An interim arrived after a turn had completed with its message.
C25_Witness ==
    /\ Handled(IDLE, "InterimTranscriptionFrame")
    /\ frame.text = "hell"
    /\ prev.turn.messages = <<"Hello. ">>
    /\ state = IDLE
    /\ ~pending_interim

\* C26: in IDLE a downstream UserStartedSpeakingFrame is the one frame pushed
\* and leaves the state SPEAKING_AWAITING_TRANSCRIPT, the buffer empty and
\* pending_interim false, with no final fragment counted for the new turn.
C26_StartInIdle ==
    Handled(IDLE, "UserStartedSpeakingFrame") =>
        /\ pushed = <<Down(frame)>>
        /\ state = SPEAKING_AWAITING_TRANSCRIPT
        /\ aggregation = ""
        /\ ~pending_interim
        /\ done_received_at = None
        /\ turn = NoTurn

\* A second turn opened after the first had pushed its message.
C26_Witness ==
    /\ Handled(IDLE, "UserStartedSpeakingFrame")
    /\ prev.turn.messages = <<"Hello. ">>
    /\ nTurnMessages = 1
    /\ state = SPEAKING_AWAITING_TRANSCRIPT
    /\ turn = NoTurn

\* The latest call flushed the wait on the timeout and then handled its frame
\* in IDLE: the buffer it found went out without the frame's text.
TimeoutFired ==
    /\ flushed = <<Flush(prev.aggregation)>>
    /\ TextsOf(pushed) = IF prev.aggregation # "" THEN <<prev.aggregation>> ELSE <<>>
    /\ state = IF frame.kind = "UserStartedSpeakingFrame"
               THEN SPEAKING_AWAITING_TRANSCRIPT ELSE IDLE
    /\ aggregation = ""
    /\ ~pending_interim
    /\ done_received_at = None

\* The latest call handed its frame to the DONE_AWAITING_TRANSCRIPT handler,
\* no timeout flush before it.
HandledInWait ==
    CASE frame.kind = "InterimTranscriptionFrame" ->
           /\ flushed = <<>>
           /\ pushed = <<>>
           /\ state = DONE_AWAITING_TRANSCRIPT
           /\ pending_interim
           /\ done_received_at = prev.done_received_at
      [] frame.kind = "TranscriptionFrame" ->
           /\ flushed = <<Flush(prev.aggregation \o frame.text)>>
           /\ state = IDLE
      [] frame.kind = "UserStartedSpeakingFrame" ->
           /\ flushed = <<Flush(prev.aggregation)>>
           /\ state = SPEAKING_AWAITING_TRANSCRIPT
      [] OTHER ->
           /\ flushed = <<>>
           /\ pushed = <<Down(frame)>>
           /\ FieldsUnchanged

\* C27: a downstream frame processed in DONE_AWAITING_TRANSCRIPT fires the
\* timeout flush exactly when the clock reading less done_received_at is at
\* least aggregation_timeout, equality included; below that nothing is
\* flushed on the timeout and the frame reaches the DONE_AWAITING_TRANSCRIPT
\* handler. This holds for every kind of downstream frame; an upstream frame
\* flushes nothing.
C27_TimeoutBoundary ==
    /\ (Called /\ direction = DOWNSTREAM /\ prev.state = DONE_AWAITING_TRANSCRIPT) =>
          IF prev.now - prev.done_received_at[1] >= AggregationTimeout
          THEN TimeoutFired
          ELSE HandledInWait
    /\ (Called /\ direction = UPSTREAM) => (flushed = <<>> /\ FieldsUnchanged)

\* A second stop arrived exactly aggregation_timeout after the first and
\* found the wait expired.
C27_Witness ==
    /\ Called
    /\ direction = DOWNSTREAM
    /\ prev.state = DONE_AWAITING_TRANSCRIPT
    /\ prev.now - prev.done_received_at[1] = AggregationTimeout
    /\ frame = UserStoppedSpeakingFrame
    /\ prev.aggregation = "Hello. "
    /\ pushed = <<Down(UserTurnMessageFrame("Hello. ")), Down(frame)>>
    /\ state = IDLE

\* C28 as stated: the buffer is non-empty in DONE_AWAITING_TRANSCRIPT.
C28_Original == state = DONE_AWAITING_TRANSCRIPT => aggregation # ""

\* C28: in DONE_AWAITING_TRANSCRIPT an interim is pending and the buffer is
\* the final fragments of the turn joined in order; it is empty when the stop
\* came after interims only, or after finals with empty text only.
C28_BufferInWait ==
    state = DONE_AWAITING_TRANSCRIPT =>
        /\ pending_interim
        /\ aggregation = Concat(turn.finals)
        /\ aggregation # "" <=> HasText(turn.finals)

\* The wait began with two fragments buffered.
C28_Witness ==
    /\ state = DONE_AWAITING_TRANSCRIPT
    /\ turn.finals = <<"Hello. ", "How are you? ">>
    /\ aggregation = "Hello. How are you? "
    /\ pending_interim

\* C29: a timeout flush that finds the buffer empty pushes no message and
\* still resets the aggregator (IDLE, pending_interim false, done_received_at
\* cleared) before the frame is dispatched, so the frame is handled in IDLE.
C29_EmptyTimeoutFlush ==
    (Called /\ direction = DOWNSTREAM /\ PrevExpired /\ prev.aggregation = "") =>
        /\ TextsOf(pushed) = <<>>
        /\ flushed = <<Flush("")>>
        /\ state = IF frame.kind = "UserStartedSpeakingFrame"
                   THEN SPEAKING_AWAITING_TRANSCRIPT ELSE IDLE
        /\ aggregation = ""
        /\ ~pending_interim
        /\ done_received_at = None

\* An interim came too late to a wait that had buffered nothing.
C29_Witness ==
    /\ PrevExpired
    /\ prev.aggregation = ""
    /\ direction = DOWNSTREAM
    /\ frame = InterimTranscriptionFrame("hell")
    /\ pushed = <<>>
    /\ state = IDLE
    /\ ~pending_interim

\* C30 as stated: the buffer is non-empty in SPEAKING_RECEIVED_TRANSCRIPT.
C30_Original == state = SPEAKING_RECEIVED_TRANSCRIPT => aggregation # ""

\* C30: in SPEAKING_RECEIVED_TRANSCRIPT at least one final fragment has been
\* received in the turn and the buffer is these fragments joined in order; it
\* is non-empty unless every fragment so far had empty text.
C30_FragmentReceived ==
    state = SPEAKING_RECEIVED_TRANSCRIPT =>
        /\ turn.finals # <<>>
        /\ aggregation = Concat(turn.finals)
        /\ aggregation = "" <=> ~HasText(turn.finals)

\* An empty fragment came first, then one with text.
C30_Witness ==
    /\ state = SPEAKING_RECEIVED_TRANSCRIPT
    /\ turn.finals = <<"", "hello">>
    /\ aggregation = "hello"

\* C31: pending_interim is true exactly when a turn is open and an
\* InterimTranscriptionFrame was delivered to it after its latest
\* TranscriptionFrame, or after it opened if it has none; a second start or a
\* second stop leaves the flag as it was.
C31_PendingMeansInterim ==
    /\ pending_interim <=> (state # IDLE /\ turn.interim)
    /\ (Anomalous /\ ~PrevExpired /\ frame.kind \in {"UserStartedSpeakingFrame",
                                                     "UserStoppedSpeakingFrame"}) =>
          pending_interim = prev.pending_interim

\* An interim, its final, and one more interim: the flag is set again.
C31_Witness ==
    /\ state = SPEAKING_RECEIVED_TRANSCRIPT
    /\ turn.finals = <<"hello">>
    /\ turn.interim
    /\ pending_interim
    /\ frame = InterimTranscriptionFrame("hell")
    /\ ~prev.pending_interim
    /\ nEvents = 4

\* C32: a second downstream start in SPEAKING_AWAITING_TRANSCRIPT or
\* SPEAKING_RECEIVED_TRANSCRIPT, and a second downstream stop during the wait
\* before it expires, is the one frame pushed: no message is pushed and state,
\* buffer, pending_interim and done_received_at stay as they were.
C32_DuplicatePassThrough ==
    (\/ Handled(SPEAKING_AWAITING_TRANSCRIPT, "UserStartedSpeakingFrame")
     \/ Handled(SPEAKING_RECEIVED_TRANSCRIPT, "UserStartedSpeakingFrame")
     \/ Handled(DONE_AWAITING_TRANSCRIPT, "UserStoppedSpeakingFrame")) =>
        /\ pushed = <<Down(frame)>>
        /\ flushed = <<>>
        /\ FieldsUnchanged
        /\ turn = prev.turn

\* A second start arrived with a fragment buffered and an interim pending.
C32_Witness ==
    /\ Handled(SPEAKING_RECEIVED_TRANSCRIPT, "UserStartedSpeakingFrame")
    /\ prev.aggregation = "Hello. "
    /\ prev.pending_interim
    /\ aggregation = "Hello. "
    /\ pending_interim
    /\ state = SPEAKING_RECEIVED_TRANSCRIPT

\* C33: in DONE_AWAITING_TRANSCRIPT pending_interim is true; the state is
\* entered only with the flag set and no call leaves it in the state with the
\* flag cleared.
C33_WaitMeansPending ==
    /\ state = DONE_AWAITING_TRANSCRIPT => pending_interim
    /\ (Called /\ state = DONE_AWAITING_TRANSCRIPT) => prev.pending_interim

\* An interim during the wait: still waiting, the flag still set.
C33_Witness ==
    /\ Handled(DONE_AWAITING_TRANSCRIPT, "InterimTranscriptionFrame")
    /\ state = DONE_AWAITING_TRANSCRIPT
    /\ pending_interim
    /\ prev.now > prev.done_received_at[1]

\* C34: the deadline of the wait is never extended. A call that begins and
\* ends in DONE_AWAITING_TRANSCRIPT leaves done_received_at as it found it,
\* whatever frame it delivered in either direction; the call that entered the
\* state recorded it.
C34_DeadlineKept ==
    (Called /\ prev.state = DONE_AWAITING_TRANSCRIPT /\ state = DONE_AWAITING_TRANSCRIPT) =>
        /\ done_received_at = prev.done_received_at
        /\ direction = UPSTREAM \/ ~PrevExpired
        /\ done_received_at[1] <= prev.now

\* A second stop came a tick into the wait; the deadline still counts from the first.
C34_Witness ==
    /\ Handled(DONE_AWAITING_TRANSCRIPT, "UserStoppedSpeakingFrame")
    /\ state = DONE_AWAITING_TRANSCRIPT
    /\ prev.now = 1
    /\ done_received_at = <<0>>

\* The downstream frames of a sequence of calls that are no transcripts.
NoTranscripts(calls) ==
    SelectSeq(calls, LAMBDA p : p.frame.kind \notin {"InterimTranscriptionFrame",
                                                    "TranscriptionFrame"})

\* C35: relay completeness and order. The frames a call with a downstream
\* frame pushes, its messages left out, are the frame itself if it is a
\* start, a stop or any other frame, and none if it is a transcript, in every
\* state; so over a test scenario the frames pushed, the messages left out,
\* are the frames delivered, the transcripts left out, in the same order.
C35_RelayComplete ==
    /\ (Called /\ direction = DOWNSTREAM) => Relayed(pushed) = NoTranscripts(<<Down(frame)>>)
    /\ Relayed(script.pushed) = NoTranscripts(script.inputs)

\* A stop with no turn open was relayed.
C35_Witness ==
    /\ Called
    /\ direction = DOWNSTREAM
    /\ prev.state = IDLE
    /\ frame = UserStoppedSpeakingFrame
    /\ pushed = <<Down(UserStoppedSpeakingFrame)>>
    /\ nEvents > 1

\* Both sequences have been delivered to the end.
RaceOver == nEvents = Len(StoppedLast(""))

\* C36: race-order independence. With start, interim, final, stop delivered to
\* one aggregator and start, interim, stop, final (the same text) to another,
\* and the wait of the second not expired when its final arrives, neither
\* pushes a message before its last frame; with the last frame both push the
\* same messages, one carrying the text or none if the text is empty, and
\* both end in IDLE with the buffer empty, pending_interim false and
\* done_received_at cleared.
C36_RaceOrder ==
    twin.agree =>
        IF RaceOver
        THEN /\ TextsOf(pushed) = TextsOf(twin.pushed)
             /\ Len(TextsOf(pushed)) <= 1
             /\ BackToIdle
             /\ twin.state = IDLE
             /\ twin.aggregation = ""
             /\ ~twin.pending_interim
             /\ twin.done_received_at = None
        ELSE /\ TextsOf(pushed) = <<>>
             /\ TextsOf(twin.pushed) = <<>>

\* Both pushed the one message, the second a tick after its stop.
C36_Witness ==
    /\ RaceOver
    /\ twin.agree
    /\ twin.monotonic = 1
    /\ pushed = <<Down(UserTurnMessageFrame("hello")), Down(UserStoppedSpeakingFrame)>>
    /\ twin.pushed = <<Down(UserTurnMessageFrame("hello"))>>
    /\ state = IDLE
    /\ twin.state = IDLE

\* A poll has run to its end without an enqueue or a cursor write raising.
PollDone == poller.pc = "idle" /\ poller.polls > 0 /\ ~poller.checked.raised

\* The poll found a message after the cursor, the newest at least
\* SESSION_GAP_MINUTES old.
SessionOver ==
    /\ poller.checked.message_ids # <<>>
    /\ poller.checked.gap >= SESSION_GAP_MINUTES

\* What an enqueuing poll leaves: a job with exactly the ids after the cursor
\* and the cursor on the last of them; any other poll leaves the cursor alone.
PollOutcome ==
    IF poller.checked.enqueued
    THEN /\ poller.jobs # <<>>
         /\ poller.jobs[Len(poller.jobs)] = poller.checked.message_ids
         /\ poller.cursor =
               <<poller.checked.message_ids[Len(poller.checked.message_ids)]>>
    ELSE poller.cursor = poller.checked.cursor

\* No message id is in two jobs.
NoIdTwice ==
    \A i, j \in DOMAIN poller.jobs :
        i < j =>
            \A a \in DOMAIN poller.jobs[i], b \in DOMAIN poller.jobs[j] :
                poller.jobs[i][a] # poller.jobs[j][b]

\* C37 as stated: a poll enqueues exactly when it finds a message after the
\* cursor whose newest is old enough.
C37_Original ==
    /\ PollDone => ((poller.checked.enqueued <=> SessionOver) /\ PollOutcome)
    /\ poller.ok => NoIdTwice

\* C37: for an agent with an archive attached, a poll enqueues a
\* summarize_session job exactly when there is a message after the cursor and
\* the newest is at least SESSION_GAP_MINUTES old; the job carries exactly
\* the ids after the cursor and the cursor moves to the last of them; every
\* other poll, and every poll of an agent without an archive, enqueues nothing
\* and leaves the cursor; no id is in two jobs while no enqueue or cursor
\* write has raised.
C37_SessionPolling ==
    /\ PollDone =>
          /\ poller.checked.enqueued <=> (poller.archive_id /\ SessionOver)
          /\ PollOutcome
    /\ poller.ok => NoIdTwice

\* Two sessions, two jobs: the second poll took up after the first one's cursor.
C37_Witness ==
    /\ PollDone
    /\ poller.ok
    /\ poller.checked.enqueued
    /\ poller.checked.cursor = <<1>>
    /\ poller.jobs = << <<1>>, <<2, 3>> >>
    /\ poller.cursor = <<3>>

\* The sockets a dispatch has tried so far.
Attempted == {manager.sent[i] : i \in DOMAIN manager.sent}

\* C38: dispatch tries each socket at most once and only sockets that were
\* registered for its agent when it took the snapshot, never one registered
\* only for another agent; when it ends it has tried exactly those sockets,
\* whatever was registered or unregistered meanwhile and whichever sends raised.
C38_FanOut ==
    /\ Attempted \subseteq manager.registered
    /\ Attempted \cap manager.elsewhere = {}
    /\ Cardinality(Attempted) = Len(manager.sent)
    /\ manager.pc = "idle" => Attempted = manager.registered
    /\ manager.delivered \subseteq Attempted

\* A dispatch to two sockets ended while a third was registered for another
\* agent: the first send raised, the second was delivered, and meanwhile the
\* first socket was unregistered.
C38_Witness ==
    /\ manager.pc = "idle"
    /\ Len(manager.sent) = 2
    /\ manager.sent[1] \notin manager.delivered
    /\ manager.sent[2] \in manager.delivered
    /\ manager.sent[1] \notin Connected
    /\ manager.elsewhere # {}
    /\ connections_get(manager.connections, manager.agent_id) # manager.registered
====
